---- MODULE Spec2Model ----
(***************************************************************************)
(* bigfilestat: streaming statistics over a file of space-separated        *)
(* floating-point numbers (src/src/main.rs, mod file_stat).                *)
(*                                                                         *)
(* The file is a sequence of bytes.  One call of a public function of      *)
(* file_stat runs from "idle" to "done"; every iteration of for_file's     *)
(* loop (read one token, parse it, run the caller's closure) is one step.  *)
(*                                                                         *)
(* f64 values are modelled as exact rationals <<numerator, denominator>>   *)
(* in lowest terms, and the value NaN as <<0, 0>>.  The files drawn here   *)
(* hold short decimal integers, on which f64 comparison, min, max,         *)
(* addition and the halving of the bisection interval are exact.           *)
(***************************************************************************)
EXTENDS Integers, Sequences, FiniteSets

\* Longest file, in bytes.
MaxLen == 7
\* Longest run of digits in a file.
MaxDigits == 2
\* Largest `len` argument of tails.
MaxTail == 3

----------------------------------------------------------------------------
(* f64 arithmetic *)

RECURSIVE GCD(_, _)
GCD(a, b) == IF b = 0 THEN a ELSE GCD(b, a % b)

Abs(i) == IF i < 0 THEN -i ELSE i

NaN == <<0, 0>>

is_nan(a) == a[2] = 0

\* The f64 of an integer.
F(i) == <<i, 1>>

\* n/d in lowest terms with a positive denominator; x/0 arises only as 0/0.
Ratio(n, d) ==
    IF d = 0 THEN NaN
    ELSE LET g == GCD(Abs(n), Abs(d))
             s == IF d < 0 THEN -1 ELSE 1
         IN  <<s * (n \div g), s * (d \div g)>>

LCM(a, b) == (a \div GCD(a, b)) * b

\* a + b
f64_add(a, b) ==
    IF is_nan(a) \/ is_nan(b) THEN NaN
    ELSE LET l == LCM(a[2], b[2])
         IN  Ratio(a[1] * (l \div a[2]) + b[1] * (l \div b[2]), l)

\* a - b
f64_sub(a, b) ==
    IF is_nan(a) \/ is_nan(b) THEN NaN
    ELSE LET l == LCM(a[2], b[2])
         IN  Ratio(a[1] * (l \div a[2]) - b[1] * (l \div b[2]), l)

\* a / b
f64_div(a, b) ==
    IF is_nan(a) \/ is_nan(b) THEN NaN
    ELSE Ratio(a[1] * b[2], a[2] * b[1])

\* a.powi(2)
f64_powi2(a) == IF is_nan(a) THEN NaN ELSE <<a[1] * a[1], a[2] * a[2]>>

\* a.abs()
f64_abs(a) == <<Abs(a[1]), a[2]>>

\* a < b and a <= b; every comparison with NaN is false.
f64_lt(a, b) ==
    /\ ~is_nan(a)
    /\ ~is_nan(b)
    /\ LET l == LCM(a[2], b[2]) IN a[1] * (l \div a[2]) < b[1] * (l \div b[2])

f64_le(a, b) ==
    /\ ~is_nan(a)
    /\ ~is_nan(b)
    /\ LET l == LCM(a[2], b[2]) IN a[1] * (l \div a[2]) <= b[1] * (l \div b[2])

\* a.min(b), a.max(b)
f64_min(a, b) == IF f64_lt(b, a) THEN b ELSE a

f64_max(a, b) == IF f64_lt(a, b) THEN b ELSE a

\* a.total_cmp(&b)
total_cmp(a, b) ==
    IF f64_lt(a, b) THEN "Less" ELSE IF f64_lt(b, a) THEN "Greater" ELSE "Equal"

\* The literal 0.001 of find_median.
Tolerance == <<1, 1000>>

----------------------------------------------------------------------------
(* Option *)

None == <<>>

Some(v) == <<v>>

is_some(o) == o # <<>>

\* o.unwrap_or(d)
unwrap_or(o, d) == IF is_some(o) THEN o[1] ELSE d

\* a.zip(b)
zip(a, b) == IF is_some(a) /\ is_some(b) THEN Some(<<a[1], b[1]>>) ELSE None

----------------------------------------------------------------------------
(* The file and its tokens *)

Delimiter == " "

Digits == {"1", "2"}

Bytes == Digits \cup {Delimiter, "x"}

DigitValue == [c \in Digits |-> IF c = "1" THEN 1 ELSE 2]

\* No run of more than MaxDigits digits.
ShortRuns(s) ==
    \A i \in 1..Len(s) :
        i + MaxDigits <= Len(s) => \E j \in i..(i + MaxDigits) : s[j] \notin Digits

Sources ==
    UNION {{s \in [1..n -> Bytes] : ShortRuns(s)} : n \in 0..MaxLen}

\* Where read_until(b' ') stops when it starts at byte p: the next delimiter, or
\* one past the end of the file.
NextDelimiter(s, p) ==
    IF \E i \in p..Len(s) : s[i] = Delimiter
    THEN CHOOSE i \in p..Len(s) :
             /\ s[i] = Delimiter
             /\ \A j \in p..(i - 1) : s[j] # Delimiter
    ELSE Len(s) + 1

\* The item reader.split(b' ') yields at byte p: the bytes up to the delimiter,
\* without it.
TokenAt(s, p) == SubSeq(s, p, NextDelimiter(s, p) - 1)

\* The reader left on the delimiter instead of past it.
AfterToken_on_delimiter(s, p) == NextDelimiter(s, p)

\* The reader's position after that item: past the delimiter it consumed.
AfterToken(s, p) ==
    IF NextDelimiter(s, p) > Len(s) THEN Len(s) + 1 ELSE NextDelimiter(s, p) + 1

\* read_until read no byte: the iterator ends.
at_eof(s, p) == p > Len(s)

\* str::parse::<f64> on the bytes of this model: a non-empty run of digits.
parse_ok(tok) == Len(tok) > 0 /\ \A i \in 1..Len(tok) : tok[i] \in Digits

RECURSIVE DecimalValue(_)
DecimalValue(tok) ==
    IF tok = <<>> THEN 0
    ELSE 10 * DecimalValue(SubSeq(tok, 1, Len(tok) - 1)) + DigitValue[tok[Len(tok)]]

parse_f64(tok) == F(DecimalValue(tok))

----------------------------------------------------------------------------
(* Outcomes of a call *)

Ok(v) == [tag |-> "Ok", val |-> v]

Err(e) == [tag |-> "Err", val |-> e]

\* Option::expect on None.
Panic(msg) == [tag |-> "panic", val |-> msg]

Pending == [tag |-> "pending", val |-> ""]

----------------------------------------------------------------------------
(* State *)

VARIABLES
    source,       \* the bytes of the file
    exists,       \* whether File::open succeeds
    fn,           \* the public function that was called
    pc,           \* the function whose body is running, "idle" or "done"
    pos,          \* for_file: 0 before File::open, then the next unread byte
    result,       \* what the call returned
    size,         \* len
    val_min,      \* min_max
    val_max,
    sum,          \* average, dispersion
    len,
    x_avr,        \* dispersion
    less,         \* is_median
    eq,
    greater,
    mid,          \* find_median
    left,
    right,
    tails_len,    \* tails: its len argument, left and right
    tails_left,
    tails_right,
    delivered,    \* history: the values the running scan gave to its closure
    scans,        \* history: the number of for_file calls of this call
    calls         \* history: the number of find_median calls of this call

file == <<source, exists>>

min_max_locals == <<val_min, val_max>>

average_locals == <<sum, len, x_avr>>

median_locals == <<less, eq, greater, mid, left, right, calls>>

tails_locals == <<tails_len, tails_left, tails_right>>

vars ==
    <<source, exists, fn, pc, pos, result, size, val_min, val_max, sum, len,
      x_avr, less, eq, greater, mid, left, right, tails_len, tails_left,
      tails_right, delivered, scans, calls>>

Init ==
    /\ exists \in BOOLEAN
    /\ source \in (IF exists THEN Sources ELSE {<<>>})
    /\ fn = "none"
    /\ pc = "idle"
    /\ pos = 0
    /\ result = Pending
    /\ size = 0
    /\ val_min = None
    /\ val_max = None
    /\ sum = F(0)
    /\ len = 0
    /\ x_avr = F(0)
    /\ less = 0
    /\ eq = 0
    /\ greater = 0
    /\ mid = F(0)
    /\ left = F(0)
    /\ right = F(0)
    /\ tails_len = 0
    /\ tails_left = <<>>
    /\ tails_right = <<>>
    /\ delivered = <<>>
    /\ scans = 0
    /\ calls = 0

----------------------------------------------------------------------------
(* for_file *)

\* The functions that call for_file themselves.
Scanners == {"len", "min_max", "average", "dispersion", "is_median", "tails"}

\* for_file is about to be called by f.
Enter(f) == pc' = f /\ pos' = 0

\* File::open(filename)? succeeds.
for_file_open ==
    /\ pc \in Scanners
    /\ pos = 0
    /\ exists
    /\ pos' = 1
    /\ delivered' = <<>>
    /\ scans' = scans + 1
    /\ UNCHANGED <<file, fn, pc, result, size, min_max_locals, average_locals,
                   median_locals, tails_locals>>

\* File::open(filename)? fails: every caller hands the error on with `?`.
for_file_open_error ==
    /\ pc \in Scanners
    /\ pos = 0
    /\ ~exists
    /\ result' = Err("io")
    /\ pc' = "done"
    /\ UNCHANGED <<file, fn, pos, size, min_max_locals, average_locals,
                   median_locals, tails_locals, delivered, scans>>

\* The loop has an item for the closure of f: the next token, parsed.
HasValue(f) ==
    /\ pc = f
    /\ pos >= 1
    /\ ~at_eof(source, pos)
    /\ parse_ok(TokenAt(source, pos))

Value == parse_f64(TokenAt(source, pos))

\* The iteration ends after the closure ran on Value.
Consumed ==
    /\ pos' = AfterToken(source, pos)
    /\ delivered' = Append(delivered, Value)

\* The loop of f's for_file is over: Ok(()).
Finished(f) == pc = f /\ pos >= 1 /\ at_eof(source, pos)

\* for_file with the malformed token skipped instead of returned as an error.
for_file_parse_skip ==
    /\ pc \in Scanners
    /\ pos >= 1
    /\ ~at_eof(source, pos)
    /\ ~parse_ok(TokenAt(source, pos))
    /\ pos' = AfterToken(source, pos)
    /\ UNCHANGED <<file, fn, pc, result, size, min_max_locals, average_locals,
                   median_locals, tails_locals, delivered, scans>>

\* parse::<f64>()? fails on the next token: for_file returns the error, and
\* every caller hands it on with `?`.
for_file_parse_error ==
    /\ pc \in Scanners
    /\ pos >= 1
    /\ ~at_eof(source, pos)
    /\ ~parse_ok(TokenAt(source, pos))
    /\ result' = Err("parse")
    /\ pc' = "done"
    /\ UNCHANGED <<file, fn, pos, size, min_max_locals, average_locals,
                   median_locals, tails_locals, delivered, scans>>

----------------------------------------------------------------------------
(* len *)

len_call ==
    /\ pc = "idle"
    /\ fn' = "len"
    /\ size' = 0
    /\ Enter("len")
    /\ UNCHANGED <<file, result, min_max_locals, average_locals, median_locals,
                   tails_locals, delivered, scans>>

len_closure ==
    /\ HasValue("len")
    /\ size' = size + 1
    /\ Consumed
    /\ UNCHANGED <<file, fn, pc, result, min_max_locals, average_locals,
                   median_locals, tails_locals, scans>>

len_return ==
    /\ Finished("len")
    /\ result' = Ok(size)
    /\ pc' = "done"
    /\ UNCHANGED <<file, fn, pos, size, min_max_locals, average_locals,
                   median_locals, tails_locals, delivered, scans>>

----------------------------------------------------------------------------
(* min_max, and median's use of it *)

min_max_call ==
    /\ pc = "idle"
    /\ fn' = "min_max"
    /\ val_min' = None
    /\ val_max' = None
    /\ Enter("min_max")
    /\ UNCHANGED <<file, result, size, average_locals, median_locals,
                   tails_locals, delivered, scans>>

\* median starts with min_max(filename).
median_call ==
    /\ pc = "idle"
    /\ fn' = "median"
    /\ val_min' = None
    /\ val_max' = None
    /\ Enter("min_max")
    /\ UNCHANGED <<file, result, size, average_locals, median_locals,
                   tails_locals, delivered, scans>>

min_max_closure ==
    /\ HasValue("min_max")
    /\ val_min' = Some(f64_min(Value, unwrap_or(val_min, Value)))
    /\ val_max' = Some(f64_max(Value, unwrap_or(val_max, Value)))
    /\ Consumed
    /\ UNCHANGED <<file, fn, pc, result, size, average_locals, median_locals,
                   tails_locals, scans>>

\* min_max returns Ok(val_min.zip(val_max)) to its caller.
min_max_return ==
    /\ Finished("min_max")
    /\ fn = "min_max"
    /\ result' = Ok(zip(val_min, val_max))
    /\ pc' = "done"
    /\ UNCHANGED <<file, fn, pos, size, min_max_locals, average_locals,
                   median_locals, tails_locals, delivered, scans>>

\* median: .expect("median requires 1+ value") on min_max's Option, then
\* find_median(filename, min, max).
median_expect ==
    /\ Finished("min_max")
    /\ fn = "median"
    /\ IF is_some(zip(val_min, val_max))
       THEN /\ left' = zip(val_min, val_max)[1][1]
            /\ right' = zip(val_min, val_max)[1][2]
            /\ pc' = "find_median"
            /\ UNCHANGED result
       ELSE /\ result' = Panic("median requires 1+ value")
            /\ pc' = "done"
            /\ UNCHANGED <<left, right>>
    /\ UNCHANGED <<file, fn, pos, size, min_max_locals, average_locals, less,
                   eq, greater, mid, calls, tails_locals, delivered, scans>>

----------------------------------------------------------------------------
(* average, and dispersion's use of it *)

average_call ==
    /\ pc = "idle"
    /\ fn' = "average"
    /\ sum' = F(0)
    /\ len' = 0
    /\ Enter("average")
    /\ UNCHANGED <<file, result, size, min_max_locals, x_avr, median_locals,
                   tails_locals, delivered, scans>>

\* dispersion starts with average(filename).
dispersion_call ==
    /\ pc = "idle"
    /\ fn' = "dispersion"
    /\ sum' = F(0)
    /\ len' = 0
    /\ Enter("average")
    /\ UNCHANGED <<file, result, size, min_max_locals, x_avr, median_locals,
                   tails_locals, delivered, scans>>

average_closure ==
    /\ HasValue("average")
    /\ sum' = f64_add(sum, Value)
    /\ len' = len + 1
    /\ Consumed
    /\ UNCHANGED <<file, fn, pc, result, size, min_max_locals, x_avr,
                   median_locals, tails_locals, scans>>

\* The quotient with an empty stream answered by 0.
Quotient_zero(s, n) == IF n = 0 THEN F(0) ELSE f64_div(s, F(n))

\* The quotient with the sample divisor n - 1.
Quotient_sample(s, n) == f64_div(s, F(n - 1))

\* sum / len as f64
Quotient(s, n) == f64_div(s, F(n))

average_return ==
    /\ Finished("average")
    /\ fn = "average"
    /\ result' = Ok(Quotient(sum, len))
    /\ pc' = "done"
    /\ UNCHANGED <<file, fn, pos, size, min_max_locals, average_locals,
                   median_locals, tails_locals, delivered, scans>>

\* dispersion: x_avr = average(filename)?, then its own sum, len and scan.
dispersion_average ==
    /\ Finished("average")
    /\ fn = "dispersion"
    /\ x_avr' = Quotient(sum, len)
    /\ sum' = F(0)
    /\ len' = 0
    /\ Enter("dispersion")
    /\ UNCHANGED <<file, fn, result, size, min_max_locals, median_locals,
                   tails_locals, delivered, scans>>

dispersion_closure ==
    /\ HasValue("dispersion")
    /\ sum' = f64_add(sum, f64_powi2(f64_sub(Value, x_avr)))
    /\ len' = len + 1
    /\ Consumed
    /\ UNCHANGED <<file, fn, pc, result, size, min_max_locals, x_avr,
                   median_locals, tails_locals, scans>>

dispersion_return ==
    /\ Finished("dispersion")
    /\ result' = Ok(Quotient(sum, len))
    /\ pc' = "done"
    /\ UNCHANGED <<file, fn, pos, size, min_max_locals, average_locals,
                   median_locals, tails_locals, delivered, scans>>

----------------------------------------------------------------------------
(* median: find_median and is_median *)

\* (left - right).abs() <= 0.001
Converged(l, r) == f64_le(f64_abs(f64_sub(l, r)), Tolerance)

\* right + left, not halved.
Midpoint_no_half(l, r) == f64_add(r, l)

\* right + left / 2.0
Midpoint_precedence(l, r) == f64_add(r, f64_div(l, F(2)))

\* (right + left) / 2.0
Midpoint(l, r) == f64_div(f64_add(r, l), F(2))

\* One call of find_median(filename, left, right): return left, or call
\* is_median(filename, mid).
find_median ==
    /\ pc = "find_median"
    /\ calls' = calls + 1
    /\ IF Converged(left, right)
       THEN /\ result' = Ok(left)
            /\ pc' = "done"
            /\ UNCHANGED <<pos, mid, less, eq, greater>>
       ELSE /\ mid' = Midpoint(left, right)
            /\ less' = 0
            /\ eq' = 0
            /\ greater' = 0
            /\ Enter("is_median")
            /\ UNCHANGED result
    /\ UNCHANGED <<file, fn, size, min_max_locals, average_locals, left, right,
                   tails_locals, delivered, scans>>

is_median_closure ==
    /\ HasValue("is_median")
    /\ LET c == total_cmp(Value, mid)
       IN  /\ less' = IF c = "Less" THEN less + 1 ELSE less
           /\ eq' = IF c = "Equal" THEN eq + 1 ELSE eq
           /\ greater' = IF c = "Greater" THEN greater + 1 ELSE greater
    /\ Consumed
    /\ UNCHANGED <<file, fn, pc, result, size, min_max_locals, average_locals,
                   mid, left, right, calls, tails_locals, scans>>

\* is_median with Less and Greater exchanged.
Ordering_swapped(l, e, g) ==
    IF Abs(g - l) < e + 1 THEN "Equal" ELSE IF g < l THEN "Greater" ELSE "Less"

\* What is_median returns for its three counts.
Ordering(l, e, g) ==
    IF Abs(g - l) < e + 1 THEN "Equal" ELSE IF g < l THEN "Less" ELSE "Greater"

\* find_median's match with Equal narrowing to [mid, right].
Narrow_equal_right(ord, l, m, r) ==
    CASE ord = "Less" -> <<l, m>>
      [] ord = "Equal" -> <<m, r>>
      [] ord = "Greater" -> <<m, r>>

\* find_median's match: the <<left, right>> of the recursive call.
Narrow(ord, l, m, r) ==
    CASE ord = "Less" -> <<l, m>>
      [] ord = "Equal" -> <<l, m>>
      [] ord = "Greater" -> <<m, r>>

\* is_median returns, and find_median calls itself on the narrowed interval.
is_median_return ==
    /\ Finished("is_median")
    /\ left' = Narrow(Ordering(less, eq, greater), left, mid, right)[1]
    /\ right' = Narrow(Ordering(less, eq, greater), left, mid, right)[2]
    /\ pc' = "find_median"
    /\ UNCHANGED <<file, fn, pos, result, size, min_max_locals, average_locals,
                   less, eq, greater, mid, calls, tails_locals, delivered, scans>>

----------------------------------------------------------------------------
(* tails *)

tails_call ==
    /\ pc = "idle"
    /\ fn' = "tails"
    /\ tails_len' \in 0..MaxTail
    /\ tails_left' = <<>>
    /\ tails_right' = <<>>
    /\ Enter("tails")
    /\ UNCHANGED <<file, result, size, min_max_locals, average_locals,
                   median_locals, delivered, scans>>

\* if left.len() < len { left.push(x) }
PushLeft(l, n, x) == IF Len(l) < n THEN Append(l, x) ELSE l

\* right.push_back(x) with no eviction.
PushRight_no_pop(r, n, x) == Append(r, x)

\* right.push_front(x); if right.len() > len { right.pop_back() }
PushRight_front(r, n, x) ==
    IF Len(<<x>> \o r) > n THEN SubSeq(<<x>> \o r, 1, Len(r)) ELSE <<x>> \o r

\* right.push_back(x); if right.len() > len { right.pop_front() }
PushRight(r, n, x) == IF Len(Append(r, x)) > n THEN Tail(Append(r, x)) ELSE Append(r, x)

tails_closure ==
    /\ HasValue("tails")
    /\ tails_left' = PushLeft(tails_left, tails_len, Value)
    /\ tails_right' = PushRight(tails_right, tails_len, Value)
    /\ Consumed
    /\ UNCHANGED <<file, fn, pc, result, size, min_max_locals, average_locals,
                   median_locals, tails_len, scans>>

tails_return ==
    /\ Finished("tails")
    /\ result' = Ok(<<tails_left, tails_right>>)
    /\ pc' = "done"
    /\ UNCHANGED <<file, fn, pos, size, min_max_locals, average_locals,
                   median_locals, tails_locals, delivered, scans>>

----------------------------------------------------------------------------

Next ==
    \/ for_file_open
    \/ for_file_open_error
    \/ for_file_parse_error
    \/ len_call
    \/ len_closure
    \/ len_return
    \/ min_max_call
    \/ min_max_closure
    \/ min_max_return
    \/ median_call
    \/ median_expect
    \/ find_median
    \/ is_median_closure
    \/ is_median_return
    \/ average_call
    \/ average_closure
    \/ average_return
    \/ dispersion_call
    \/ dispersion_average
    \/ dispersion_closure
    \/ dispersion_return
    \/ tails_call
    \/ tails_closure
    \/ tails_return

Spec == Init /\ [][Next]_vars

----------------------------------------------------------------------------
(* Reference definitions: the stream of a file, taken from the whole file at once *)

\* The space-delimited fields of s; a delimiter that ends the file ends the last
\* field and starts no other.
RECURSIVE Fields(_)
Fields(s) ==
    IF s = <<>> THEN <<>>
    ELSE IF \E i \in 1..Len(s) : s[i] = Delimiter
         THEN LET i == CHOOSE k \in 1..Len(s) :
                           s[k] = Delimiter /\ \A j \in 1..(k - 1) : s[j] # Delimiter
              IN  <<SubSeq(s, 1, i - 1)>> \o Fields(SubSeq(s, i + 1, Len(s)))
         ELSE <<s>>

\* The number of fields, counted from the delimiters alone.
NumTokens(s) ==
    Cardinality({i \in 1..Len(s) : s[i] = Delimiter})
        + (IF s # <<>> /\ s[Len(s)] # Delimiter THEN 1 ELSE 0)

AllParse(s) == LET t == Fields(s) IN \A i \in 1..Len(t) : parse_ok(t[i])

Malformed(s) == LET t == Fields(s) IN \E i \in 1..Len(t) : ~parse_ok(t[i])

\* The stream of a file whose fields all parse.
Values(s) == LET t == Fields(s) IN [i \in 1..Len(t) |-> parse_f64(t[i])]

Min2(a, b) == IF a < b THEN a ELSE b

FirstN(v, m) == SubSeq(v, 1, m)

LastN(v, m) == SubSeq(v, Len(v) - m + 1, Len(v))

Reverse(v) == [i \in 1..Len(v) |-> v[Len(v) + 1 - i]]

\* The file is readable and all its tokens parse.
Stream == exists /\ AllParse(source)

N == Len(Fields(source))

\* The integers of the stream, and their sorted order.
Ints(s) == LET t == Fields(s) IN [i \in 1..Len(t) |-> DecimalValue(t[i])]

RECURSIVE SumSeq(_)
SumSeq(v) == IF v = <<>> THEN 0 ELSE v[1] + SumSeq(Tail(v))

RECURSIVE SortSeq(_)
SortSeq(v) ==
    IF v = <<>> THEN <<>>
    ELSE LET i == CHOOSE k \in 1..Len(v) : \A j \in 1..Len(v) : v[k] <= v[j]
         IN  <<v[i]>> \o SortSeq(SubSeq(v, 1, i - 1) \o SubSeq(v, i + 1, Len(v)))

Sorted == SortSeq(Ints(source))

\* The extrema, the lower median (0-based index floor((n-1)/2)) and the
\* sorted-order median of a non-empty stream.
TrueMin == F(Sorted[1])

TrueMax == F(Sorted[N])

LowerMedian == F(Sorted[(N + 1) \div 2])

TrueMedian == Ratio(Sorted[(N + 1) \div 2] + Sorted[(N + 2) \div 2], 2)

\* The population variance sum((x - mean)^2) / n = sum((n x - S)^2) / n^3.
SquaredDeviations(v) ==
    LET n == Len(v)
        t == SumSeq(v)
    IN  SumSeq([i \in 1..n |-> (n * v[i] - t) * (n * v[i] - t)])

PopulationVariance == Ratio(SquaredDeviations(Ints(source)), N * N * N)

Within(a, b, tol) == f64_le(f64_abs(f64_sub(a, b)), tol)

Returned(f) == pc = "done" /\ fn = f /\ result.tag = "Ok"

PublicFns == {"len", "min_max", "average", "dispersion", "median", "tails"}

----------------------------------------------------------------------------
(* Claims *)

\* C1: on a readable file with a malformed token (one that is no float
\* literal, such as "x" or the empty token between two delimiters), every one
\* of len, min_max, average, dispersion, median and tails ends in a failure:
\* none returns a success computed from the tokens before the malformed one.
C1_MalformedFails ==
    (pc = "done" /\ exists /\ Malformed(source))
        => (fn \in PublicFns /\ result.tag = "Err")

\* len has counted the two good tokens of "1 2 x" and then failed.
C1_Witness ==
    /\ pc = "done"
    /\ fn = "len"
    /\ source = <<"1", " ", "2", " ", "x">>
    /\ size = 2
    /\ result.tag = "Err"

\* C2 as claimed: on an empty file min_max, average and median each end in a
\* failure outcome.
C2_EmptyFails ==
    (pc = "done" /\ exists /\ source = <<>> /\ fn \in {"min_max", "average", "median"})
        => result.tag \in {"Err", "panic"}

\* C2 as amended: on an empty file median ends in a precondition failure (the
\* expect panics), while min_max returns the absent value None and average
\* returns NaN, each as a success; none of the three returns a number.
C2_EmptyOutcomes ==
    (pc = "done" /\ exists /\ source = <<>>)
        => /\ fn = "median" => result = Panic("median requires 1+ value")
           /\ fn = "min_max" => result = Ok(None)
           /\ fn = "average" => result = Ok(NaN)

C2_Witness ==
    /\ pc = "done"
    /\ exists
    /\ source = <<>>
    /\ fn = "average"
    /\ scans = 1
    /\ result = Ok(NaN)

\* C3: on a file whose tokens all parse, a scan gives the closure each token's
\* value exactly once, in file order, and ends in success; so len returns the
\* number of space-delimited tokens, and Ok(0) on a file with none.
C3_OncePerToken ==
    /\ (pc \in Scanners /\ pos >= 1)
           => LET t == Fields(source)
              IN  /\ Len(delivered) <= Len(t)
                  /\ \A i \in 1..Len(delivered) :
                         /\ parse_ok(t[i])
                         /\ delivered[i] = parse_f64(t[i])
    /\ (pc \in Scanners /\ pos >= 1 /\ at_eof(source, pos))
           => delivered = Values(source)
    /\ (pc = "done" /\ Stream) => result.tag # "Err"
    /\ (pc = "done" /\ Stream /\ fn = "len") => result = Ok(NumTokens(source))
    /\ (pc = "done" /\ exists /\ fn = "len" /\ source = <<>>) => result = Ok(0)

\* len has returned 3 on "12 1 2 ", whose last byte is a delimiter.
C3_Witness ==
    /\ Returned("len")
    /\ source = <<"1", "2", " ", "1", " ", "2", " ">>
    /\ delivered = <<F(12), F(1), F(2)>>
    /\ result = Ok(3)

\* C4: after each of the i values tails has consumed, its prefix is the first
\* min(i, k) values and its suffix the last min(i, k) values, oldest leftmost,
\* neither longer than k; tails returns the two for i = n, for every k >= 0.
C4_TailsWindows ==
    /\ (pc = "tails" /\ pos >= 1)
           => LET i == Len(delivered)
                  m == Min2(i, tails_len)
              IN  /\ Len(tails_left) = m
                  /\ Len(tails_right) = m
                  /\ m <= tails_len
                  /\ tails_left = FirstN(delivered, m)
                  /\ tails_right = LastN(delivered, m)
    /\ (pc = "done" /\ fn = "tails" /\ Stream)
           => LET v == Values(source)
                  m == Min2(Len(v), tails_len)
              IN  result = Ok(<<FirstN(v, m), LastN(v, m)>>)

\* tails(source, 2) has returned on "1 2 2 1": the window slid twice.
C4_Witness ==
    /\ Returned("tails")
    /\ tails_len = 2
    /\ source = <<"1", " ", "2", " ", "2", " ", "1">>
    /\ result.val = <<<<F(1), F(2)>>, <<F(2), F(1)>>>>

\* C5 as claimed: the returned suffix, reversed, is the last min(n, k) values in
\* original order.
C5_ReversedIsOriginalOrder ==
    (Returned("tails") /\ Stream)
        => Reverse(result.val[2]) = LastN(Values(source), Min2(N, tails_len))

\* C5 as amended: the returned suffix, reversed, is the last min(n, k) values
\* most recent first: its j-th value is the j-th value from the end of the
\* stream.
C5_ReversedIsNewestFirst ==
    (Returned("tails") /\ Stream)
        => LET v == Values(source)
               m == Min2(Len(v), tails_len)
           IN  /\ Len(Reverse(result.val[2])) = m
               /\ \A j \in 1..m : Reverse(result.val[2])[j] = v[Len(v) + 1 - j]

\* tails(source, 2) has returned on "1 1 1 2": reversed, the suffix is 2, 1.
C5_Witness ==
    /\ Returned("tails")
    /\ tails_len = 2
    /\ source = <<"1", " ", "1", " ", "1", " ", "2">>
    /\ Reverse(result.val[2]) = <<F(2), F(1)>>

C8_Variance ==
    Returned("dispersion")
        => /\ f64_le(F(0), result.val)
           /\ N >= 1 => result.val = PopulationVariance
           /\ (N >= 1 /\ \A i \in 1..N : Ints(source)[i] = Ints(source)[1])
                  => result.val = F(0)

\* C8 as amended: on a non-empty stream the value dispersion returns is
\* non-negative, it is the population variance sum((x - mean)^2) / n, and it is
\* 0 for a stream of equal values; on the empty stream dispersion returns NaN.
C8_VarianceNonEmpty ==
    Returned("dispersion")
        => IF source = <<>>
           THEN result.val = NaN
           ELSE /\ f64_le(F(0), result.val)
                /\ result.val = PopulationVariance
                /\ (\A i \in 1..N : Ints(source)[i] = Ints(source)[1])
                       => result.val = F(0)

\* dispersion has returned 2/9 on "1 2 1": mean 4/3, divisor 3.
C8_Witness ==
    /\ Returned("dispersion")
    /\ source = <<"1", " ", "2", " ", "1">>
    /\ x_avr = <<4, 3>>
    /\ scans = 2
    /\ result = Ok(<<2, 9>>)

RECURSIVE Pow2(_)
Pow2(k) == IF k = 0 THEN 1 ELSE 2 * Pow2(k - 1)

\* One step of the search, as C9 describes it.
C9_Step ==
    /\ (pc = "find_median" /\ Within(right, left, Tolerance))
           => (pc' = "done" /\ result' = Ok(left))
    /\ (pc = "find_median" /\ ~Within(right, left, Tolerance))
           => (pc' = "is_median" /\ pos' = 0 /\ scans = calls + 1)
    /\ (pc = "is_median" /\ pc' = "find_median")
           => /\ delivered = Values(source)
              /\ scans = calls + 1
              /\ \/ f64_add(left', left') = f64_add(left, right) /\ right' = right
                 \/ f64_add(right', right') = f64_add(left, right) /\ left' = left
              /\ (left' = left) # (right' = right)
              /\ f64_le(left, left')
              /\ f64_le(right', right)
              /\ f64_add(f64_sub(right', left'), f64_sub(right', left'))
                     = f64_sub(right, left)
    /\ pc = "is_median"
           => /\ pos = 0 => exists
              /\ pos >= 1 => (at_eof(source, pos) \/ parse_ok(TokenAt(source, pos)))
              /\ pc' = "is_median" => pos' > pos
    /\ (pc' = "done" /\ fn = "median" /\ result'.tag = "Ok")
           => /\ 1000 * (Sorted[N] - Sorted[1]) <= Pow2(calls' - 1)
              /\ calls' > 1 => 1000 * (Sorted[N] - Sorted[1]) > Pow2(calls' - 2)

C10_LowerMedian ==
    /\ (pc = "is_median" /\ pos >= 1 /\ at_eof(source, pos))
           => LET ord == Ordering(less, eq, greater)
                  v == Values(source)
                  below == Cardinality({i \in 1..Len(v) : f64_lt(v[i], mid)})
                  above == Cardinality({i \in 1..Len(v) : f64_lt(mid, v[i])})
              IN  /\ (ord = "Equal") <=> (2 * below <= Len(v) /\ 2 * above <= Len(v))
                  /\ ord = "Less" => f64_lt(LowerMedian, mid)
                  /\ ord = "Greater" => f64_lt(mid, LowerMedian)
    /\ (fn = "median" /\ pc \in {"find_median", "is_median"})
           => /\ f64_le(left, LowerMedian)
              /\ f64_le(LowerMedian, right)
    /\ Returned("median")
           => /\ f64_le(f64_sub(LowerMedian, Tolerance), result.val)
              /\ f64_le(result.val, LowerMedian)

\* median has returned on "2 1 2 1", whose two middle values 1 and 2 differ: it
\* returns the lower one.
C10_Witness ==
    /\ Returned("median")
    /\ source = <<"2", " ", "1", " ", "2", " ", "1">>
    /\ LowerMedian = F(1)
    /\ TrueMedian = <<3, 2>>
    /\ calls = 11
    /\ result = Ok(F(1))

====
